---- MODULE Spec2Model ----
(***************************************************************************)
(* A model of the cover-art server (src/server.mjs): the in-memory token   *)
(* cache and getAccessToken, the link parser, the per-type lookup of       *)
(* getImagesFor, and the two request handlers GET /api/cover and           *)
(* POST /api/enhance.                                                      *)
(*                                                                         *)
(* Strings that the code inspects character by character (the link the     *)
(* user pastes) are sequences of one-character strings.  Every await of a  *)
(* network call is a point where a handler is suspended: the code between  *)
(* two awaits is one atomic action, as in Node's single-threaded event     *)
(* loop.                                                                   *)
(***************************************************************************)
EXTENDS Integers, Sequences, FiniteSets, TLC

\* ------------------------------------------------------------------------
\* Characters and strings
\* ------------------------------------------------------------------------

LowerSeq == <<"a","b","c","d","e","f","g","h","i","j","k","l","m",
              "n","o","p","q","r","s","t","u","v","w","x","y","z">>

UpperSeq == <<"A","B","C","D","E","F","G","H","I","J","K","L","M",
              "N","O","P","Q","R","S","T","U","V","W","X","Y","Z">>

DigitSeq == <<"0","1","2","3","4","5","6","7","8","9">>

Range(s) == {s[i] : i \in DOMAIN s}

IsLower(c) == c \in Range(LowerSeq)

IsUpper(c) == c \in Range(UpperSeq)

IsDigit(c) == c \in Range(DigitSeq)

IsLetter(c) == IsLower(c) \/ IsUpper(c)

IsAlnum(c) == IsLetter(c) \/ IsDigit(c)

\* String.prototype.toLowerCase, one character.
LowerChar(c) ==
  IF IsUpper(c) THEN LowerSeq[CHOOSE i \in DOMAIN UpperSeq : UpperSeq[i] = c] ELSE c

\* String.prototype.toLowerCase.
toLowerCase(s) == [i \in DOMAIN s |-> LowerChar(s[i])]

IsSpace(c) == c = " "

RECURSIVE TrimStart(_)
TrimStart(s) ==
  IF s # <<>> /\ IsSpace(Head(s)) THEN TrimStart(Tail(s)) ELSE s

RECURSIVE TrimEnd(_)
TrimEnd(s) ==
  IF s # <<>> /\ IsSpace(s[Len(s)]) THEN TrimEnd(SubSeq(s, 1, Len(s) - 1)) ELSE s

\* String.prototype.trim.
trim(s) == TrimEnd(TrimStart(s))

\* The index of the first character of s that is in the set cs, or Len(s)+1.
RECURSIVE FirstIn(_, _, _)
FirstIn(s, cs, i) ==
  IF i > Len(s) THEN i
  ELSE IF s[i] \in cs THEN i
  ELSE FirstIn(s, cs, i + 1)

\* String.prototype.split(sep) for a one-character separator: the pieces
\* between separators, empty pieces included.
RECURSIVE split(_, _)
split(s, sep) ==
  LET i == FirstIn(s, {sep}, 1)
  IN  IF i > Len(s) THEN <<s>>
      ELSE <<SubSeq(s, 1, i - 1)>> \o split(SubSeq(s, i + 1, Len(s)), sep)

\* filterBoolean that keeps every piece.
filterBooleanKeepsEmpty(parts) == parts

\* Array.prototype.filter(Boolean) on an array of strings: drops the empty ones.
filterBoolean(parts) == SelectSeq(parts, LAMBDA p : p # <<>>)

StartsWith(s, p) == Len(s) >= Len(p) /\ SubSeq(s, 1, Len(p)) = p

\* Whether p occurs in s as a substring.
Contains(s, p) ==
  \E i \in 1..(Len(s) - Len(p) + 1) : SubSeq(s, i, i + Len(p) - 1) = p

\* ------------------------------------------------------------------------
\* new URL(trimmed): the WHATWG URL parser, for the inputs of this model
\* (letters, digits and - _ . : / ? # and space; no userinfo, no percent
\* escapes, no backslash, no IPv4/IPv6 host, no file: scheme).
\* ------------------------------------------------------------------------

S_spotify == <<"s","p","o","t","i","f","y">>

S_http == <<"h","t","t","p">>

S_https == <<"h","t","t","p","s">>

S_ftp == <<"f","t","p">>

S_ws == <<"w","s">>

S_wss == <<"w","s","s">>

\* Schemes whose URLs always have an authority and a host in lower case.
SpecialSchemes == {S_http, S_https, S_ftp, S_ws, S_wss}

IsSchemeChar(c) == IsAlnum(c) \/ c \in {"+", "-", "."}

\* Code points a host may not contain, among the characters of this model.
ForbiddenHostChars == {" ", "#", "/", ":", "?"}

InvalidURL == [ok |-> FALSE, hostname |-> <<>>, pathname |-> <<>>]

RECURSIVE StripSlashes(_)
StripSlashes(s) ==
  IF s # <<>> /\ Head(s) = "/" THEN StripSlashes(Tail(s)) ELSE s

RECURSIVE join(_, _)
join(parts, sep) ==
  IF parts = <<>> THEN <<>>
  ELSE IF Len(parts) = 1 THEN parts[1]
  ELSE parts[1] \o sep \o join(Tail(parts), sep)

\* The path state's handling of the dot segments "." and "..".
RECURSIVE RemoveDotSegments(_, _)
RemoveDotSegments(segs, acc) ==
  IF segs = <<>> THEN acc
  ELSE LET x == Head(segs)
           last == Len(segs) = 1
           popped == IF acc = <<>> THEN acc ELSE SubSeq(acc, 1, Len(acc) - 1)
       IN  IF x = <<".", ".">>
             THEN RemoveDotSegments(Tail(segs), IF last THEN popped \o << <<>> >> ELSE popped)
           ELSE IF x = <<".">>
             THEN RemoveDotSegments(Tail(segs), IF last THEN acc \o << <<>> >> ELSE acc)
           ELSE RemoveDotSegments(Tail(segs), acc \o <<x>>)

\* The pathname of a URL with an authority, from the text that follows the
\* authority (query and fragment already cut off).
HierPathname(raw, special) ==
  IF raw = <<>> THEN (IF special THEN <<"/">> ELSE <<>>)
  ELSE <<"/">> \o join(RemoveDotSegments(split(Tail(raw), "/"), <<>>), <<"/">>)

\* host[:port] of an authority; the port is decimal digits.
AuthorityHost(auth) ==
  LET i == FirstIn(auth, {":"}, 1)
  IN  SubSeq(auth, 1, i - 1)

AuthorityPortOk(auth) ==
  LET i == FirstIn(auth, {":"}, 1)
  IN  \A k \in (i + 1)..Len(auth) : IsDigit(auth[k])

ParseURL(s) ==
  LET colon == FirstIn(s, {":"}, 1)
  IN
  IF \/ colon > Len(s)
     \/ colon < 2
     \/ ~IsLetter(s[1])
     \/ \E k \in 2..(colon - 1) : ~IsSchemeChar(s[k])
  THEN InvalidURL
  ELSE
    LET scheme == toLowerCase(SubSeq(s, 1, colon - 1))
        rest == SubSeq(s, colon + 1, Len(s))
        special == scheme \in SpecialSchemes
        hasAuth == special \/ StartsWith(rest, <<"/", "/">>)
        afterSl == IF special THEN StripSlashes(rest)
                   ELSE IF hasAuth THEN SubSeq(rest, 3, Len(rest))
                   ELSE rest
        authEnd == FirstIn(afterSl, {"/", "?", "#"}, 1)
        auth == SubSeq(afterSl, 1, authEnd - 1)
        host == AuthorityHost(auth)
        pathEnd == FirstIn(afterSl, {"?", "#"}, 1)
    IN
    IF ~hasAuth
      THEN [ok |-> TRUE, hostname |-> <<>>,
            pathname |-> SubSeq(afterSl, 1, pathEnd - 1)]
    ELSE IF \/ (special /\ host = <<>>)
            \/ ~AuthorityPortOk(auth)
            \/ \E k \in DOMAIN host : host[k] \in ForbiddenHostChars
      THEN InvalidURL
    ELSE [ok |-> TRUE,
          hostname |-> IF special THEN toLowerCase(host) ELSE host,
          pathname |-> HierPathname(SubSeq(afterSl, authEnd, pathEnd - 1), special)]

\* ------------------------------------------------------------------------
\* parseSpotifyLink
\* ------------------------------------------------------------------------

\* null
NoLink == [ok |-> FALSE, type |-> <<>>, id |-> <<>>]

Link(t, i) == [ok |-> TRUE, type |-> t, id |-> i]

\* UriMatches without the regex's flag i.
UriMatchesCaseSensitive(trimmed) ==
  LET p == split(trimmed, ":")
  IN  /\ Len(p) = 3
      /\ p[1] = S_spotify
      /\ p[2] # <<>> /\ \A k \in DOMAIN p[2] : IsLower(p[2][k]) \/ p[2][k] = "_"
      /\ p[3] # <<>> /\ \A k \in DOMAIN p[3] : IsAlnum(p[3][k])

\* /^spotify:([a-z_]+):([A-Za-z0-9]+)$/i : neither group can hold a colon, so
\* a match is exactly three colon-separated pieces.
UriMatches(trimmed) ==
  LET p == split(trimmed, ":")
  IN  /\ Len(p) = 3
      /\ toLowerCase(p[1]) = S_spotify
      /\ p[2] # <<>> /\ \A k \in DOMAIN p[2] : IsLetter(p[2][k]) \/ p[2][k] = "_"
      /\ p[3] # <<>> /\ \A k \in DOMAIN p[3] : IsAlnum(p[3][k])

\* /\.spotify\./.test(url.hostname)
HostIsSpotify(hostname) == Contains(hostname, <<".">> \o S_spotify \o <<".">>)

parseSpotifyLink(input) ==
  IF input = <<>> THEN NoLink
  ELSE
    LET trimmed == trim(input)
    IN
    IF UriMatches(trimmed)
      THEN LET p == split(trimmed, ":") IN Link(toLowerCase(p[2]), p[3])
    ELSE
      LET url == ParseURL(trimmed)
          parts == filterBoolean(split(url.pathname, "/"))
      IN  IF ~url.ok THEN NoLink
          ELSE IF ~HostIsSpotify(url.hostname) THEN NoLink
          ELSE IF Len(parts) >= 2
            THEN Link(toLowerCase(parts[1]), split(parts[2], "?")[1])
          ELSE NoLink

\* ------------------------------------------------------------------------
\* Bounds of the model
\* ------------------------------------------------------------------------

\* Concurrent GET /api/cover requests.
MaxCoverReqs == 2

\* Times the wall clock is seen to advance.
MaxTicks == 2

CoverReqs == 1..MaxCoverReqs

\* ------------------------------------------------------------------------
\* Program constants
\* ------------------------------------------------------------------------

\* tokenCache.expiresAt - 30 > nowSeconds()
TokenBuffer == 30

\* data.expires_in || 3600
DefaultExpiresIn == 3600

\* only640
CoverSize == 640

\* ------------------------------------------------------------------------
\* Values
\* ------------------------------------------------------------------------

\* An optional value (undefined, or a value): the empty sequence or <<v>>.
None == <<>>

Some(v) == <<v>>

IsSome(o) == o # <<>>

\* tokenCache.accessToken = null
NoToken == "null"

\* access_token values the token endpoint hands out.
TokenValues == {"tokA", "tokB"}

\* expires_in of a token response: absent, or a number of seconds.
ExpiresInValues == {None, Some(0), Some(20), Some(DefaultExpiresIn)}

\* How far the clock is seen to advance between two steps.
TickSteps == {1, DefaultExpiresIn - TokenBuffer - 1}

VARIABLES
  env,          \* process.env: which secrets are set
  tokenCache,   \* let tokenCache = { accessToken, expiresAt }
  now,          \* nowSeconds()
  ticks,        \* how often the clock advanced
  cover,        \* the GET /api/cover requests, each with its handler's position
  enhance,      \* the POST /api/enhance request with its handler's position
  client        \* the page in the browser: input, button, status, fetches

vars == <<env, tokenCache, now, ticks, cover, enhance, client>>

\* ------------------------------------------------------------------------
\* Token cache: getAccessToken
\* ------------------------------------------------------------------------

\* CacheValid with the buffer taken twice: a token in its last minute counts
\* as expired.
CacheValidDoubleBuffer ==
  /\ tokenCache.accessToken # NoToken
  /\ tokenCache.expiresAt - 2 * TokenBuffer > now

\* The test of lines 27-30: a cached token, with the buffer still in the future.
CacheValid ==
  /\ tokenCache.accessToken # NoToken
  /\ tokenCache.expiresAt - TokenBuffer > now

\* !SPOTIFY_CLIENT_ID || !SPOTIFY_CLIENT_SECRET
CredentialsMissing == ~env.SPOTIFY_CLIENT_ID \/ ~env.SPOTIFY_CLIENT_SECRET

\* data.expires_in || 3600 : absent and 0 are both falsy.
LifetimeOf(expiresIn) ==
  IF IsSome(expiresIn) /\ expiresIn[1] # 0 THEN expiresIn[1] ELSE DefaultExpiresIn

\* The cache written at lines 56-59 from a token response.
NewCache(accessToken, expiresIn) ==
  [accessToken |-> accessToken, expiresAt |-> now + LifetimeOf(expiresIn)]

\* ------------------------------------------------------------------------
\* Resource lookup: getImagesFor
\* ------------------------------------------------------------------------

T_track == <<"t","r","a","c","k">>

T_album == <<"a","l","b","u","m">>

T_artist == <<"a","r","t","i","s","t">>

T_playlist == <<"p","l","a","y","l","i","s","t">>

T_episode == <<"e","p","i","s","o","d","e">>

T_show == <<"s","h","o","w">>

\* The cases of the switch.
KnownTypes == {T_track, T_album, T_artist, T_playlist, T_episode, T_show}

\* The collection of `${base}/<collection>/${id}` that each case fetches.
EndpointOf(type) ==
  CASE type = T_track -> "tracks"
    [] type = T_album -> "albums"
    [] type = T_artist -> "artists"
    [] type = T_playlist -> "playlists"
    [] type = T_episode -> "episodes"
    [] type = T_show -> "shows"
    [] OTHER -> "none"

\* Is640 without the test of the height.
Is640WidthOnly(img) == IsSome(img.width) /\ img.width[1] = CoverSize

\* Number(img?.width) === 640 && Number(img?.height) === 640 ; a missing
\* dimension is NaN.
Is640(img) ==
  /\ IsSome(img.width) /\ img.width[1] = CoverSize
  /\ IsSome(img.height) /\ img.height[1] = CoverSize

\* only640 = (imgs) => (imgs || []).filter(...)
only640(imgs) ==
  SelectSeq(IF IsSome(imgs) THEN imgs[1] ELSE <<>>, Is640)

\* names.join(', ') as the sequence of its pieces.
RECURSIVE joinNames(_)
joinNames(names) ==
  IF names = <<>> THEN <<>>
  ELSE IF Len(names) = 1 THEN <<names[1]>>
  ELSE <<names[1], ", ">> \o joinNames(Tail(names))

\* d.artists?.map(a => a.name).join(', ')
ArtistsByline(d) ==
  IF IsSome(d.artists) THEN Some(joinNames(d.artists[1])) ELSE None

\* A name that is present and not the empty string.
Truthy(name) == IsSome(name) /\ name[1] # ""

\* Project with the track case reading the document's own images.
ProjectOwnImages(type, d) ==
  [title |-> d.name,
   byline |-> CASE type \in {T_track, T_album} -> ArtistsByline(d)
                [] type = T_artist -> Some(<<"Artist">>)
                [] type = T_playlist ->
                     IF Truthy(d.ownerName) THEN Some(<<"By ", d.ownerName[1]>>)
                     ELSE Some(<<"Playlist">>)
                [] type = T_episode ->
                     IF Truthy(d.showName) THEN Some(<<"From ", d.showName[1]>>)
                     ELSE Some(<<"Episode">>)
                [] type = T_show -> Some(<<"Podcast">>),
   type |-> CASE type = T_track -> "track" [] type = T_album -> "album"
              [] type = T_artist -> "artist" [] type = T_playlist -> "playlist"
              [] type = T_episode -> "episode" [] type = T_show -> "show",
   images |-> only640(d.images)]

\* The object each case returns from the upstream document d.
Project(type, d) ==
  CASE type = T_track ->
         [title |-> d.name, byline |-> ArtistsByline(d), type |-> "track",
          images |-> only640(IF IsSome(d.album) THEN d.album[1].images ELSE None)]
    [] type = T_album ->
         [title |-> d.name, byline |-> ArtistsByline(d), type |-> "album",
          images |-> only640(d.images)]
    [] type = T_artist ->
         [title |-> d.name, byline |-> Some(<<"Artist">>), type |-> "artist",
          images |-> only640(d.images)]
    [] type = T_playlist ->
         [title |-> d.name,
          byline |-> IF Truthy(d.ownerName) THEN Some(<<"By ", d.ownerName[1]>>)
                     ELSE Some(<<"Playlist">>),
          type |-> "playlist", images |-> only640(d.images)]
    [] type = T_episode ->
         [title |-> d.name,
          byline |-> IF Truthy(d.showName) THEN Some(<<"From ", d.showName[1]>>)
                     ELSE Some(<<"Episode">>),
          type |-> "episode", images |-> only640(d.images)]
    [] type = T_show ->
         [title |-> d.name, byline |-> Some(<<"Podcast">>), type |-> "show",
          images |-> only640(d.images)]

Img(u, w, h) == [url |-> u, width |-> w, height |-> h]

\* Upstream documents of the lookup endpoints: one with every field and
\* images of mixed sizes, one with the optional fields absent.
FullDoc ==
  [name |-> Some("Name"),
   artists |-> Some(<<"Ann", "Bob">>),
   album |-> Some([images |-> Some(<<Img("a1", Some(CoverSize), Some(CoverSize)),
                                     Img("a2", Some(300), Some(300))>>)]),
   ownerName |-> Some("Owner"),
   showName |-> Some("Show"),
   images |-> Some(<<Img("i1", Some(64), Some(64)),
                     Img("i2", Some(CoverSize), Some(CoverSize)),
                     Img("i3", Some(CoverSize), None)>>)]

BareDoc ==
  [name |-> Some("Name"), artists |-> None, album |-> None,
   ownerName |-> None, showName |-> None, images |-> None]

Docs == {FullDoc, BareDoc}

\* ------------------------------------------------------------------------
\* GET /api/cover
\* ------------------------------------------------------------------------

\* req.query.url: absent, or a string.
NoQuery == [present |-> FALSE, url |-> <<>>]

Query(u) == [present |-> TRUE, url |-> u]

\* String(url || '')
QueryString(q) == IF q.present /\ q.url # <<>> THEN q.url ELSE <<>>

\* A request that has not arrived yet.
IdleCover ==
  [pc |-> "idle", query |-> NoQuery, parsed |-> NoLink, cacheHit |-> "unset",
   token |-> NoToken, exchanges |-> 0, lookups |-> 0, endpoint |-> "none",
   d |-> None, status |-> 0, error |-> "none", body |-> None, responses |-> 0]

\* res.status(status).json({ error }) or res.json(body): the handler ends,
\* and with it getImagesFor's local `token`.
Respond(rec, status, error, body) ==
  [rec EXCEPT !.pc = "done", !.status = status, !.error = error, !.body = body,
              !.responses = @ + 1, !.token = NoToken]

\* getImagesFor after `const token = await getAccessToken()`: the switch
\* either starts the lookup of its case or throws, which the handler's catch
\* turns into a 500.
AfterToken(rec, token) ==
  IF rec.parsed.type \in KnownTypes
    THEN [rec EXCEPT !.pc = "lookup", !.token = token, !.lookups = @ + 1,
                     !.endpoint = EndpointOf(rec.parsed.type)]
  ELSE Respond(rec, 500, "unsupported_type", None)

\* StartGetAccessToken without the test of the cache: every call sends a
\* token request.
StartGetAccessTokenNoCache(rec) ==
  IF CredentialsMissing
    THEN Respond([rec EXCEPT !.cacheHit = "miss"], 500, "missing_credentials", None)
  ELSE [rec EXCEPT !.cacheHit = "miss", !.pc = "token", !.exchanges = @ + 1]

\* getAccessToken up to its first await: the cached token, the throw for
\* missing credentials, or the token request sent.
StartGetAccessToken(rec) ==
  IF CacheValid
    THEN AfterToken([rec EXCEPT !.cacheHit = "hit"], tokenCache.accessToken)
  ELSE IF CredentialsMissing
    THEN Respond([rec EXCEPT !.cacheHit = "miss"], 500, "missing_credentials", None)
  ELSE [rec EXCEPT !.cacheHit = "miss", !.pc = "token", !.exchanges = @ + 1]

\* CoverEntry without the `if (!parsed)` return: the lookup is started with
\* whatever the parser gave.
CoverEntryUnchecked(rec, q) ==
  StartGetAccessToken([rec EXCEPT !.query = q,
                                  !.parsed = parseSpotifyLink(QueryString(q))])

\* The handler from the request's arrival to its first await or its response.
CoverEntry(rec, q) ==
  LET parsed == parseSpotifyLink(QueryString(q))
      started == [rec EXCEPT !.query = q, !.parsed = parsed]
  IN  IF ~parsed.ok THEN Respond(started, 400, "invalid_link", None)
      ELSE StartGetAccessToken(started)

CoverArrive(r, q) ==
  /\ cover[r].pc = "idle"
  /\ cover' = [cover EXCEPT ![r] = CoverEntry(cover[r], q)]
  /\ UNCHANGED <<env, tokenCache, now, ticks, enhance, client>>

\* The token endpoint answers 2xx: the cache is replaced and the new token returned.
TokenOk(r, accessToken, expiresIn) ==
  /\ cover[r].pc = "token"
  /\ tokenCache' = NewCache(accessToken, expiresIn)
  /\ cover' = [cover EXCEPT ![r] = AfterToken(cover[r], accessToken)]
  /\ UNCHANGED <<env, now, ticks, enhance, client>>

\* TokenRejected with one retry: the first rejection sends the request again.
TokenRejectedRetry(r) ==
  /\ cover[r].pc = "token"
  /\ cover' = [cover EXCEPT ![r] =
                 IF cover[r].exchanges < 2
                   THEN [cover[r] EXCEPT !.exchanges = @ + 1]
                 ELSE Respond(cover[r], 500, "token_request_failed", None)]
  /\ UNCHANGED <<env, tokenCache, now, ticks, enhance, client>>

\* The token endpoint answers with a non-2xx status: getAccessToken throws.
TokenRejected(r) ==
  /\ cover[r].pc = "token"
  /\ cover' = [cover EXCEPT ![r] = Respond(cover[r], 500, "token_request_failed", None)]
  /\ UNCHANGED <<env, tokenCache, now, ticks, enhance, client>>

\* TokenNetworkError that also forgets the cached token.
TokenNetworkErrorClearsCache(r) ==
  /\ cover[r].pc = "token"
  /\ cover' = [cover EXCEPT ![r] = Respond(cover[r], 500, "fetch_failed", None)]
  /\ tokenCache' = [accessToken |-> NoToken, expiresAt |-> 0]
  /\ UNCHANGED <<env, now, ticks, enhance, client>>

\* fetch() of the token endpoint rejects.
TokenNetworkError(r) ==
  /\ cover[r].pc = "token"
  /\ cover' = [cover EXCEPT ![r] = Respond(cover[r], 500, "fetch_failed", None)]
  /\ UNCHANGED <<env, tokenCache, now, ticks, enhance, client>>

\* The body of the 200 response.
CoverBody(rec, d) ==
  LET data == Project(rec.parsed.type, d)
  IN  [id |-> rec.parsed.id, type |-> data.type, title |-> data.title,
       byline |-> data.byline, images |-> data.images]

\* The lookup answers 2xx with document d.
LookupOk(r, d) ==
  /\ cover[r].pc = "lookup"
  /\ cover' = [cover EXCEPT ![r] =
                 Respond([cover[r] EXCEPT !.d = Some(d)], 200, "none",
                         Some(CoverBody(cover[r], d)))]
  /\ UNCHANGED <<env, tokenCache, now, ticks, enhance, client>>

\* LookupRejected with the error caught and dropped: an empty result is sent.
LookupRejectedSwallowed(r) ==
  /\ cover[r].pc = "lookup"
  /\ cover' = [cover EXCEPT ![r] = Respond(cover[r], 200, "none", None)]
  /\ UNCHANGED <<env, tokenCache, now, ticks, enhance, client>>

\* The lookup answers with a non-2xx status: fetchJSON throws.
LookupRejected(r) ==
  /\ cover[r].pc = "lookup"
  /\ cover' = [cover EXCEPT ![r] = Respond(cover[r], 500, "spotify_api_error", None)]
  /\ UNCHANGED <<env, tokenCache, now, ticks, enhance, client>>

\* fetch() of the lookup rejects.
LookupNetworkError(r) ==
  /\ cover[r].pc = "lookup"
  /\ cover' = [cover EXCEPT ![r] = Respond(cover[r], 500, "fetch_failed", None)]
  /\ UNCHANGED <<env, tokenCache, now, ticks, enhance, client>>

\* Wall-clock time passes.
Tick(dt) ==
  /\ ticks < MaxTicks
  /\ now' = now + dt
  /\ ticks' = ticks + 1
  /\ UNCHANGED <<env, tokenCache, cover, enhance, client>>

\* ------------------------------------------------------------------------
\* POST /api/enhance
\* ------------------------------------------------------------------------

\* How far beyond 1..100 the quality values of the requests reach.
QualityMargin == 2

\* Number(quality) || 95
DefaultQuality == 95

\* Math.max(1, ...)
MinQuality == 1

\* Math.min(100, ...)
MaxQuality == 100

\* .resize(3000, 3000, { fit: 'cover' })
OutputSize == 3000

\* quality of a request body: absent, or an integer.
QualityValues ==
  {None} \cup {Some(n) : n \in (0 - QualityMargin)..(MaxQuality + QualityMargin)}

\* content-type of the source image's response: absent, or a media type.
ContentTypes == {None, Some("image/png"), Some("image/jpeg")}

\* The bodies a client posts: imageUrl (whether it is a non-empty string),
\* quality and progressive.
EnhanceBodies ==
  [imageUrl : BOOLEAN, quality : QualityValues, progressive : BOOLEAN]

Max(a, b) == IF a >= b THEN a ELSE b

Min(a, b) == IF a <= b THEN a ELSE b

\* Number(quality) || 95 : undefined gives NaN, and NaN and 0 are falsy.
QualityOrDefault(quality) ==
  IF IsSome(quality) /\ quality[1] # 0 THEN quality[1] ELSE DefaultQuality

\* const q = Math.max(1, Math.min(100, Number(quality) || 95))
EncodeQuality(quality) == Max(MinQuality, Min(MaxQuality, QualityOrDefault(quality)))

\* srcResp.headers.get('content-type') || 'image/jpeg'
ContentTypeIn(ct) == IF IsSome(ct) THEN ct[1] ELSE "image/jpeg"

\* contentTypeIn.includes('png') ? 'png' : 'jpg'
ExtOf(contentTypeIn) == IF contentTypeIn = "image/png" THEN "png" ELSE "jpg"

\* String(n) for a non-negative integer: its decimal digits.
RECURSIVE String(_)
String(n) ==
  IF n < 10 THEN <<DigitSeq[n + 1]>> ELSE String(n \div 10) \o <<DigitSeq[(n % 10) + 1]>>

\* resized.length: the byte lengths sharp's output buffer has.
ByteLengths == {7, 10, 123}

\* Nothing sent with res.send, and none of its headers set.
NoImage == [bytes |-> "none", length |-> 0, width |-> 0, height |-> 0,
            format |-> "none", quality |-> 0, progressive |-> FALSE,
            contentType |-> "none", contentLength |-> <<>>,
            contentDisposition |-> "none"]

\* A request that has not arrived yet.
IdleEnhance ==
  [pc |-> "idle", imageUrl |-> FALSE, quality |-> None, progressive |-> FALSE,
   sourceFetches |-> 0, transformCalls |-> 0, encodes |-> 0,
   file |-> "none", buf |-> "none", q |-> 0, status |-> 0, error |-> "none",
   details |-> FALSE, responses |-> 0, sent |-> NoImage]

\* res.status(status).json({ error, details? }): the handler ends.
EnhanceFail(rec, status, error, details) ==
  [rec EXCEPT !.pc = "done", !.status = status, !.error = error, !.details = details,
              !.responses = @ + 1]

\* EnhanceEntry without the test of the API key: the source image is fetched
\* before the key is looked at.
EnhanceEntryKeyUnchecked(rec, b) ==
  LET started == [rec EXCEPT !.imageUrl = b.imageUrl, !.quality = b.quality,
                             !.progressive = b.progressive]
  IN  IF ~b.imageUrl THEN EnhanceFail(started, 400, "missing_imageUrl", FALSE)
      ELSE [started EXCEPT !.pc = "source", !.sourceFetches = @ + 1]

\* The handler from the request's arrival to its first await or its response.
EnhanceEntry(rec, b) ==
  LET started == [rec EXCEPT !.imageUrl = b.imageUrl, !.quality = b.quality,
                             !.progressive = b.progressive]
  IN  IF ~b.imageUrl THEN EnhanceFail(started, 400, "missing_imageUrl", FALSE)
      ELSE IF ~env.CUTOUT_API_KEY THEN EnhanceFail(started, 400, "missing_api_key", FALSE)
      ELSE [started EXCEPT !.pc = "source", !.sourceFetches = @ + 1]

EnhanceArrive(b) ==
  /\ enhance.pc = "idle"
  /\ enhance' = EnhanceEntry(enhance, b)
  /\ UNCHANGED <<env, tokenCache, now, ticks, cover, client>>

\* The source image arrives (2xx): it is packed as input.<ext> and posted to
\* the transform service.
SourceFetched(rec, ct) ==
  [rec EXCEPT !.pc = "transform", !.file = ExtOf(ContentTypeIn(ct)),
              !.buf = "source", !.transformCalls = @ + 1]

SourceOk(ct) ==
  /\ enhance.pc = "source"
  /\ enhance' = SourceFetched(enhance, ct)
  /\ UNCHANGED <<env, tokenCache, now, ticks, cover, client>>

\* The source host answers with a non-2xx status.
SourceFailed(rec) == EnhanceFail(rec, 400, "source_status", TRUE)

SourceRejected ==
  /\ enhance.pc = "source"
  /\ enhance' = SourceFailed(enhance)
  /\ UNCHANGED <<env, tokenCache, now, ticks, cover, client>>

\* fetch(imageUrl) rejects, or reading its body does: the handler's catch.
SourceNetworkError ==
  /\ enhance.pc = "source"
  /\ enhance' = EnhanceFail(enhance, 500, "source_network", FALSE)
  /\ UNCHANGED <<env, tokenCache, now, ticks, cover, client>>

\* The transform service answers 2xx: q is computed and the re-encode started.
Transformed(rec) ==
  [rec EXCEPT !.pc = "reencode", !.buf = "transformed",
              !.q = EncodeQuality(rec.quality), !.encodes = @ + 1]

TransformOk ==
  /\ enhance.pc = "transform"
  /\ enhance' = Transformed(enhance)
  /\ UNCHANGED <<env, tokenCache, now, ticks, cover, client>>

\* TransformFailed left to the handler's catch-all status.
TransformFailedAs500(rec) == EnhanceFail(rec, 500, "transform_status", TRUE)

\* The transform service answers with a non-2xx status.
TransformFailed(rec) == EnhanceFail(rec, 502, "transform_status", TRUE)

TransformRejected ==
  /\ enhance.pc = "transform"
  /\ enhance' = TransformFailed(enhance)
  /\ UNCHANGED <<env, tokenCache, now, ticks, cover, client>>

\* fetch(endpoint) rejects, or reading its body does: the handler's catch.
TransformNetworkError ==
  /\ enhance.pc = "transform"
  /\ enhance' = EnhanceFail(enhance, 500, "transform_network", FALSE)
  /\ UNCHANGED <<env, tokenCache, now, ticks, cover, client>>

\* Resized with the re-encode skipped: the transform service's bytes are sent
\* as they came.
ResizedPassThrough(rec, len) ==
  [bytes |-> rec.buf, length |-> len, width |-> 0, height |-> 0,
   format |-> "image/png", quality |-> 0, progressive |-> FALSE,
   contentType |-> "image/jpeg", contentLength |-> String(len),
   contentDisposition |-> "attachment"]

\* sharp(buf).resize(3000, 3000, { fit: 'cover' }).jpeg({ quality: q,
\* progressive: prog }).toBuffer() as what res.send(resized) carries, with the
\* three headers set before it; the file name in the disposition is left out.
Resized(rec, len) ==
  [bytes |-> "resized", length |-> len, width |-> OutputSize, height |-> OutputSize,
   format |-> "image/jpeg", quality |-> rec.q, progressive |-> rec.progressive,
   contentType |-> "image/jpeg", contentLength |-> String(len),
   contentDisposition |-> "attachment"]

\* res.send without res.status: the response's status is 200.
ReencodeOk(len) ==
  /\ enhance.pc = "reencode"
  /\ enhance' = [enhance EXCEPT !.pc = "done", !.status = 200, !.responses = @ + 1,
                                !.sent = Resized(enhance, len)]
  /\ UNCHANGED <<env, tokenCache, now, ticks, cover, client>>

\* sharp cannot decode the transformed bytes: the handler's catch.
ReencodeFailed ==
  /\ enhance.pc = "reencode"
  /\ enhance' = EnhanceFail(enhance, 500, "reencode_failed", FALSE)
  /\ UNCHANGED <<env, tokenCache, now, ticks, cover, client>>

\* ------------------------------------------------------------------------
\* The page in the browser: fetchCover and the handlers that call it
\* ------------------------------------------------------------------------

\* fetchCover calls whose response has not arrived.
MaxFetches == 2

\* Paste timers that have not fired.
MaxTimers == 2

\* What the cover request of a fetchCover call ends in: a result with images,
\* one without, an error response or a failed request.
FetchOutcomes == {"images", "no_images", "error"}

\* The page after loading: the button enabled with the label the finally block
\* of fetchCover restores.
LoadedPage ==
  [value |-> <<>>, disabled |-> FALSE, label |-> "Get Cover", status |-> "",
   card |-> FALSE, fetches |-> 0, timers |-> 0]

\* fetchCover up to its await.
fetchCover(page) ==
  [page EXCEPT !.status = "Fetching cover...", !.card = FALSE, !.disabled = TRUE,
               !.label = "Fetching...", !.fetches = @ + 1]

\* The click listener of the button.
ClickListener(page) ==
  IF trim(page.value) = <<>>
    THEN [page EXCEPT !.status = "Please paste a Spotify link or URI."]
  ELSE fetchCover(page)

\* The user clicks the button; a disabled button gets no click event.
Click ==
  /\ ~client.disabled
  /\ trim(client.value) # <<>> => client.fetches < MaxFetches
  /\ client' = ClickListener(client)
  /\ UNCHANGED <<env, tokenCache, now, ticks, cover, enhance>>

\* Enter in the input field: fetchBtn.click(), which does nothing on a
\* disabled button.
EnterKey ==
  /\ (~client.disabled /\ trim(client.value) # <<>>) => client.fetches < MaxFetches
  /\ client' = IF client.disabled THEN client ELSE ClickListener(client)
  /\ UNCHANGED <<env, tokenCache, now, ticks, cover, enhance>>

\* The input listener: a status that is shown is cleared.
InputListener(page, v) == [page EXCEPT !.value = v, !.status = ""]

\* The user types or deletes.
Type(v) ==
  /\ client' = InputListener(client, v)
  /\ UNCHANGED <<env, tokenCache, now, ticks, cover, enhance>>

\* The user pastes: the paste listener sets its timer, then the text goes in.
Paste(v) ==
  /\ client.timers < MaxTimers
  /\ client' = [InputListener(client, v) EXCEPT !.timers = @ + 1]
  /\ UNCHANGED <<env, tokenCache, now, ticks, cover, enhance>>

\* The test of the paste timer's callback.
LooksLikeLink(value) ==
  /\ value # <<>>
  /\ \/ Contains(value, S_spotify \o <<".","c","o","m">>)
     \/ StartsWith(value, S_spotify \o <<":">>)

\* A paste timer fires, 50 ms after its paste.
PasteTimer ==
  /\ client.timers > 0
  /\ LooksLikeLink(trim(client.value)) => client.fetches < MaxFetches
  /\ client' = LET fired == [client EXCEPT !.timers = @ - 1]
               IN  IF LooksLikeLink(trim(client.value)) THEN fetchCover(fired)
                   ELSE fired
  /\ UNCHANGED <<env, tokenCache, now, ticks, cover, enhance>>

\* fetchCover from the arrival of its response to the end of its finally.
FetchSettled(page, outcome) ==
  [page EXCEPT !.fetches = @ - 1,
               !.card = (outcome = "images"),
               !.status = CASE outcome = "images" -> ""
                            [] outcome = "no_images" -> "No images available for this item."
                            [] outcome = "error" -> "Error fetching images",
               !.disabled = FALSE,
               !.label = "Get Cover"]

\* The response of one of the cover requests in flight arrives, or the
\* request fails.
FetchDone(outcome) ==
  /\ client.fetches > 0
  /\ client' = FetchSettled(client, outcome)
  /\ UNCHANGED <<env, tokenCache, now, ticks, cover, enhance>>

\* ------------------------------------------------------------------------
\* Specifications
\* ------------------------------------------------------------------------

Envs == [SPOTIFY_CLIENT_ID : BOOLEAN, SPOTIFY_CLIENT_SECRET : BOOLEAN,
         CUTOUT_API_KEY : BOOLEAN]

Init ==
  /\ env \in Envs
  /\ tokenCache = [accessToken |-> NoToken, expiresAt |-> 0]
  /\ now = 0
  /\ ticks = 0
  /\ cover = [r \in CoverReqs |-> IdleCover]
  /\ enhance = IdleEnhance
  /\ client = LoadedPage

U_example == S_https \o <<":","/","/","e","x",".","c","o","m","/">> \o T_track \o <<"/","a","1">>

U_album == S_https \o <<":","/","/","o","p","e","n",".">> \o S_spotify \o <<".","c","o","m","/">>
           \o T_album \o <<"/","b","2","?","s","i","=","x">>

U_track == S_spotify \o <<":">> \o T_track \o <<":","a","1">>

U_genre == S_spotify \o <<":","g","e","n","r","e",":","g","1">>

\* What the concurrent clients send: no url, an empty one, text that is no
\* link, a supported link and an unsupported one.
CoverQueries ==
  {NoQuery, Query(<<>>), Query(<<"a","b","c">>), Query(U_track), Query(U_genre)}

CoverNext ==
  \/ \E r \in CoverReqs, q \in CoverQueries : CoverArrive(r, q)
  \/ \E r \in CoverReqs, t \in TokenValues, e \in ExpiresInValues : TokenOk(r, t, e)
  \/ \E r \in CoverReqs : TokenRejected(r)
  \/ \E r \in CoverReqs : TokenNetworkError(r)
  \/ \E r \in CoverReqs, d \in Docs : LookupOk(r, d)
  \/ \E r \in CoverReqs : LookupRejected(r)
  \/ \E r \in CoverReqs : LookupNetworkError(r)
  \/ \E dt \in TickSteps : Tick(dt)

EnhanceNext ==
  \/ \E b \in EnhanceBodies : EnhanceArrive(b)
  \/ \E ct \in ContentTypes : SourceOk(ct)
  \/ SourceRejected
  \/ SourceNetworkError
  \/ TransformOk
  \/ TransformRejected
  \/ TransformNetworkError
  \/ \E len \in ByteLengths : ReencodeOk(len)
  \/ ReencodeFailed

\* The cover endpoint under concurrent requests; it never reads CUTOUT_API_KEY.
CoverInit == Init /\ env.CUTOUT_API_KEY

CoverSpec == CoverInit /\ [][CoverNext]_vars

\* The enhance endpoint; it never reads the client credentials.
EnhanceInit == Init /\ env.SPOTIFY_CLIENT_ID /\ env.SPOTIFY_CLIENT_SECRET

EnhanceSpec == EnhanceInit /\ [][EnhanceNext]_vars

\* What the input field holds: nothing, a blank, text that is no link, a URI,
\* a web link.
ClientValues == {<<>>, <<" ">>, <<"a","b","c">>, U_track, U_album}

ClientNext ==
  \/ Click
  \/ EnterKey
  \/ \E v \in ClientValues : Type(v)
  \/ \E v \in ClientValues : Paste(v)
  \/ PasteTimer
  \/ \E o \in FetchOutcomes : FetchDone(o)

ClientInit ==
  Init /\ env.SPOTIFY_CLIENT_ID /\ env.SPOTIFY_CLIENT_SECRET /\ env.CUTOUT_API_KEY

ClientSpec == ClientInit /\ [][ClientNext]_vars

Next == CoverNext \/ EnhanceNext \/ ClientNext

Spec == Init /\ [][Next]_vars

\* One client of each endpoint, with the one fairness the runtime gives by
\* itself: the local re-encode always ends.  No upstream party is obliged
\* to answer.
DefaultBodies == [imageUrl : BOOLEAN, quality : {None}, progressive : {FALSE}]

ServeNext ==
  \/ \E q \in CoverQueries : CoverArrive(1, q)
  \/ \E t \in TokenValues, e \in ExpiresInValues : TokenOk(1, t, e)
  \/ TokenRejected(1)
  \/ TokenNetworkError(1)
  \/ \E d \in Docs : LookupOk(1, d)
  \/ LookupRejected(1)
  \/ LookupNetworkError(1)
  \/ \E b \in DefaultBodies : EnhanceArrive(b)
  \/ \E ct \in ContentTypes : SourceOk(ct)
  \/ SourceRejected
  \/ SourceNetworkError
  \/ TransformOk
  \/ TransformRejected
  \/ TransformNetworkError
  \/ \E len \in ByteLengths : ReencodeOk(len)
  \/ ReencodeFailed

\* One request to each endpoint, with no upstream party obliged to answer.
ServeSpec == Init /\ [][ServeNext]_vars

FairSpec ==
  Init /\ [][ServeNext]_vars /\ WF_vars((\E len \in ByteLengths : ReencodeOk(len)) \/ ReencodeFailed)

\* ------------------------------------------------------------------------
\* One lookup, over every image set of up to MaxImages entries
\* ------------------------------------------------------------------------

\* Entries of the image sets the lookup endpoints return.
MaxImages == 2

UrlNames == <<"u1", "u2", "u3", "u4">>

\* width and height of an upstream image: missing, the cover size, another.
ImageDims == {None, Some(CoverSize), Some(300)}

ImageLists ==
  UNION {{[i \in 1..n |-> Img(UrlNames[i], f[i].w, f[i].h)] :
            f \in [1..n -> [w : ImageDims, h : ImageDims]]} : n \in 0..MaxImages}

\* images of a document: absent, or a list.
ImageSets == {None} \cup {Some(l) : l \in ImageLists}

\* Documents with one artist, with none, and with empty owner and show names.
BylineDocs ==
  {[FullDoc EXCEPT !.artists = Some(<<"Solo">>), !.ownerName = Some(""),
                   !.showName = Some("")],
   [FullDoc EXCEPT !.artists = Some(<<>>)]}

\* Documents whose own images, or whose album's images, are any such set.
RichDocs ==
  Docs \cup BylineDocs
       \cup {[BareDoc EXCEPT !.images = x] : x \in ImageSets}
       \cup {[BareDoc EXCEPT !.album = Some([images |-> x])] : x \in ImageSets}

LookupQueries ==
  {Query(S_spotify \o <<":">> \o t \o <<":", "a", "1">>) : t \in KnownTypes}
    \cup {Query(U_album), Query(U_example)}

LookupNext ==
  \/ \E q \in LookupQueries : CoverArrive(1, q)
  \/ \E t \in TokenValues, e \in ExpiresInValues : TokenOk(1, t, e)
  \/ TokenRejected(1)
  \/ \E d \in RichDocs : LookupOk(1, d)
  \/ LookupRejected(1)

LookupInit ==
  Init /\ env.SPOTIFY_CLIENT_ID /\ env.SPOTIFY_CLIENT_SECRET /\ env.CUTOUT_API_KEY

LookupSpec == LookupInit /\ [][LookupNext]_vars

\* ------------------------------------------------------------------------
\* The links a client sends, built from their parts
\* ------------------------------------------------------------------------

S_Spotify == <<"S","p","o","t","i","f","y">>

S_spotifx == <<"s","p","o","t","i","f","x">>

S_foo == <<"f","o","o">>

S_HTTPS == <<"H","T","T","P","S">>

\* scheme:type:id with optional blanks around it.
UriSchemes == {S_spotify, S_Spotify, S_spotifx, S_http, S_foo}

UriTypes ==
  {T_track, <<"A","l","b","u","m">>, <<"m","y","_","T">>, <<"a","-","b">>,
   <<"t","1">>, <<>>}

UriIds ==
  {<<"a","1">>, <<"Z","z","9">>, <<"a","-","1">>, <<"a",":","b">>, <<"a","?","x">>, <<>>}

Blanks == {<<>>, <<" ">>}

UriInputs ==
  [form : {"uri"}, lead : Blanks, scheme : UriSchemes, type : UriTypes, id : UriIds,
   trail : Blanks]

RenderUri(c) ==
  c.lead \o c.scheme \o <<":">> \o c.type \o <<":">> \o c.id \o c.trail

\* scheme://host/segment/segment...?query#fragment
UrlSchemes == {S_https, S_http, S_HTTPS, S_foo}

H_open == <<"o","p","e","n",".">> \o S_spotify \o <<".","c","o","m">>

H_OPEN == <<"O","p","e","n",".">> \o S_Spotify \o <<".","C","O","M">>

H_bare == S_spotify \o <<".","c","o","m">>

H_other == <<"e","x",".","c","o","m">>

H_nested == <<"a",".">> \o S_spotify \o <<".","e","x">>

UrlHosts == {H_open, H_OPEN, H_bare, H_other, H_nested}

UrlSegments ==
  {<<>>,
   <<T_track>>,
   <<T_track, <<>> >>,
   <<T_track, <<"a","1">> >>,
   <<T_track, <<"a","1">>, <<>> >>,
   << <<"A","l","b","u","m">>, <<"Z","z","9">> >>,
   <<T_track, <<"a","1">>, <<"x","y">> >>,
   << <<"g","e","n","r","e">>, <<"g","_","1">> >>,
   << <<>>, T_track, <<>>, <<"a","1">> >>,
   << <<"i","n","t","l","-","d","e">>, T_track, <<"a","1">> >>}

UrlSuffixes ==
  {<<>>, <<"?","s","i","=","x">>, <<"#","f">>, <<"?","a","=","/","b","/","c">>}

UrlInputs ==
  [form : {"url"}, scheme : UrlSchemes, host : UrlHosts, segs : UrlSegments,
   suffix : UrlSuffixes]

RECURSIVE RenderPath(_)
RenderPath(segs) ==
  IF segs = <<>> THEN <<>> ELSE <<"/">> \o Head(segs) \o RenderPath(Tail(segs))

RenderUrl(c) ==
  c.scheme \o <<":","/","/">> \o c.host \o RenderPath(c.segs) \o c.suffix

LinkInputs == UriInputs \cup UrlInputs

Render(c) == IF c.form = "uri" THEN RenderUri(c) ELSE RenderUrl(c)

\* One request per link: parseSpotifyLink is applied at the handler's entry.
ParseNext == \E c \in LinkInputs : CoverArrive(1, Query(Render(c)))

ParseInit ==
  Init /\ env.SPOTIFY_CLIENT_ID /\ env.SPOTIFY_CLIENT_SECRET /\ env.CUTOUT_API_KEY

ParseSpec == ParseInit /\ [][ParseNext]_vars

\* ------------------------------------------------------------------------
\* Claims
\* ------------------------------------------------------------------------

\* A request whose handler has called getAccessToken in this step.
CallsGetAccessToken(r) ==
  cover[r].pc = "idle" /\ cover'[r].pc # "idle" /\ cover'[r].parsed.ok

\* C1: every token that getAccessToken returns, from the cache or from an
\* exchange just made, is at the moment of return more than 30 seconds before
\* the expiry recorded in the cache, whatever lifetime the token endpoint
\* declared.
C1_ReturnedTokenHasMargin ==
  [][\A r \in CoverReqs :
       (cover[r].token = NoToken /\ cover'[r].token # NoToken)
         => tokenCache'.expiresAt - 30 > now']_vars

\* C2: a getAccessToken call made while the cache holds a token whose expiry
\* minus 30 seconds is later than the current time returns the cached value,
\* sends no token request and leaves the cache as it was.  (The handler then
\* uses the value for its lookup, or drops it when the type has no lookup.)
C2_ValidCacheServed ==
  [][\A r \in CoverReqs :
       ( /\ CallsGetAccessToken(r)
         /\ tokenCache.accessToken # NoToken
         /\ tokenCache.expiresAt - 30 > now )
         => /\ cover'[r].pc \in {"lookup", "done"}
            /\ cover'[r].pc = "lookup" => cover'[r].token = tokenCache.accessToken
            /\ cover'[r].pc = "done" => cover'[r].error = "unsupported_type"
            /\ cover'[r].exchanges = 0
            /\ tokenCache' = tokenCache]_vars

\* A request served from the cache some time after another request's exchange
\* filled it.
C2_Witness ==
  \E r \in CoverReqs :
    /\ cover[r].cacheHit = "hit"
    /\ cover[r].token = tokenCache.accessToken
    /\ cover[r].exchanges = 0
    /\ now > 0

\* C3: with the client id or the client secret absent, every GET /api/cover
\* call is answered with status 400, and with the missing-credentials message
\* when the link parsed; never with a 5xx status.
C3_MissingCredentialsIs400 ==
  \A r \in CoverReqs :
    ((~env.SPOTIFY_CLIENT_ID \/ ~env.SPOTIFY_CLIENT_SECRET) /\ cover[r].pc = "done")
      => /\ cover[r].status = 400
         /\ cover[r].parsed.ok => cover[r].error = "missing_credentials"

\* C4: a fetch of a type that is none of the six known ones fails with the
\* unsupported-type error without any token exchange or lookup call, in every
\* state of the configuration and the cache, and /api/cover reports it as 400.
C4_UnsupportedTypeRejectedFirst ==
  \A r \in CoverReqs :
    (cover[r].parsed.ok /\ cover[r].parsed.type \notin KnownTypes)
      => /\ cover[r].exchanges = 0
         /\ cover[r].lookups = 0
         /\ cover[r].pc = "done"
         /\ cover[r].error = "unsupported_type"
         /\ cover[r].status = 400

\* C5: a GET /api/cover request whose url is missing, empty or no link the
\* parser accepts is answered at once with status 400 and an error payload,
\* with no token exchange, no lookup and the token cache unchanged.
C5_UnparsedIs400NoNetwork ==
  [][\A r \in CoverReqs :
       ( /\ cover[r].pc = "idle" /\ cover'[r].pc # "idle"
         /\ ~parseSpotifyLink(QueryString(cover'[r].query)).ok )
         => /\ cover'[r].pc = "done"
            /\ cover'[r].status = 400
            /\ cover'[r].error # "none"
            /\ cover'[r].body = None
            /\ cover'[r].exchanges = 0
            /\ cover'[r].lookups = 0
            /\ tokenCache' = tokenCache]_vars

\* A request with text that is no link, answered 400 while the cache holds a
\* token another request obtained.
C5_Witness ==
  \E r \in CoverReqs :
    /\ cover[r].pc = "done"
    /\ cover[r].query = Query(<<"a", "b", "c">>)
    /\ cover[r].status = 400
    /\ cover[r].exchanges = 0
    /\ tokenCache.accessToken # NoToken

\* The status the claim gives the stage of a failed enhance request.
C6_Failed == enhance.pc = "done" /\ enhance.status # 200

\* C6: every failing POST /api/enhance gets the status of the stage that
\* failed: 400 for a missing imageUrl or API key, 500 when fetching the source
\* image does not succeed (non-success response or network failure), 502 when
\* the transform service answers with a non-success status, 500 when the
\* re-encode fails.
C6_StatusOfFailedStage ==
  C6_Failed =>
    /\ enhance.error \in {"missing_imageUrl", "missing_api_key"} => enhance.status = 400
    /\ enhance.error \in {"source_status", "source_network"} => enhance.status = 500
    /\ enhance.error = "transform_status" => enhance.status = 502
    /\ enhance.error = "reencode_failed" => enhance.status = 500

\* C6 as amended: a non-success response of the source image host is
\* answered 400; only a network failure of that fetch is answered 500.
C6_StatusOfFailedStageAmended ==
  C6_Failed =>
    /\ enhance.error \in {"missing_imageUrl", "missing_api_key", "source_status"}
         => enhance.status = 400
    /\ enhance.error = "source_network" => enhance.status = 500
    /\ enhance.error = "transform_status" => enhance.status = 502
    /\ enhance.error = "reencode_failed" => enhance.status = 500

\* The source image host answered with a non-success status.
C6_Witness ==
  /\ enhance.pc = "done"
  /\ enhance.error = "source_status"
  /\ enhance.sourceFetches = 1
  /\ enhance.transformCalls = 0
  /\ enhance.status = 400

\* C7: every request to /api/cover and /api/enhance is eventually answered,
\* also when an upstream party never answers.
C7_EveryRequestAnswered ==
  /\ (cover[1].pc # "idle") ~> (cover[1].pc = "done")
  /\ (enhance.pc # "idle") ~> (enhance.pc = "done")

\* A request whose getAccessToken call has returned or thrown.
C8_CallOver(r) == cover[r].cacheHit # "unset" /\ cover[r].pc \in {"lookup", "done"}

\* C8: under any interleaving, a request whose getAccessToken call saw no
\* valid cached token makes exactly one token exchange before the call
\* returns or fails, and a request that saw a valid one makes none.
C8_OneExchangePerMiss ==
  \A r \in CoverReqs :
    /\ cover[r].exchanges <= 1
    /\ cover[r].cacheHit = "hit" => cover[r].exchanges = 0
    /\ (C8_CallOver(r) /\ cover[r].cacheHit = "miss") => cover[r].exchanges = 1

\* C8 as amended: exactly one exchange when the credentials are configured,
\* none when they are absent (the call fails before any request is sent).
C8_OneExchangePerMissAmended ==
  \A r \in CoverReqs :
    /\ cover[r].exchanges <= 1
    /\ cover[r].cacheHit = "hit" => cover[r].exchanges = 0
    /\ cover[r].pc = "token" => cover[r].exchanges = 1
    /\ (C8_CallOver(r) /\ cover[r].cacheHit = "miss") =>
         cover[r].exchanges =
           IF env.SPOTIFY_CLIENT_ID /\ env.SPOTIFY_CLIENT_SECRET THEN 1 ELSE 0

\* Two overlapping requests that both saw an empty cache: one has its token
\* from its own exchange, the other's own exchange is still in flight although
\* the cache is valid by now.
C8_Witness ==
  \E r1, r2 \in CoverReqs :
    /\ r1 # r2
    /\ cover[r1].pc = "lookup" /\ cover[r1].cacheHit = "miss" /\ cover[r1].exchanges = 1
    /\ cover[r2].pc = "token" /\ cover[r2].exchanges = 1
    /\ tokenCache.accessToken # NoToken /\ tokenCache.expiresAt - 30 > now

\* C9: the quality used for the JPEG encoding is the supplied quality clamped
\* to [1,100] (101 gives 100, 0 and negative values give 1), and 95 when no
\* quality is supplied.
C9_QualityClamped ==
  enhance.encodes > 0 =>
    enhance.q = IF enhance.quality = None THEN 95
                ELSE IF enhance.quality[1] < 1 THEN 1
                ELSE IF enhance.quality[1] > 100 THEN 100
                ELSE enhance.quality[1]

\* The image set a result's images are taken from.
C10_Upstream(rec) ==
  LET d == rec.d[1]
      set == IF rec.parsed.type = T_track
               THEN (IF d.album = None THEN None ELSE d.album[1].images)
             ELSE d.images
  IN  IF set = None THEN <<>> ELSE set[1]

RECURSIVE C11_DecimalValue(_)
C11_DecimalValue(digits) ==
  IF digits = <<>> THEN 0
  ELSE 10 * C11_DecimalValue(SubSeq(digits, 1, Len(digits) - 1))
       + (CHOOSE k \in 0..9 : DigitSeq[k + 1] = digits[Len(digits)])

\* C11: every 200 response of POST /api/enhance carries the bytes the local
\* re-encode produced, never the source's or the transform service's: a JPEG
\* of exactly 3000 by 3000 pixels, sent with Content-Type image/jpeg, an
\* attachment disposition and a Content-Length that writes the byte length.
C11_SuccessIsReencodedJpeg ==
  enhance.status = 200 =>
    /\ enhance.encodes = 1
    /\ enhance.sent.bytes = "resized"
    /\ enhance.sent.bytes \notin {"source", "transformed"}
    /\ enhance.sent.width = 3000
    /\ enhance.sent.height = 3000
    /\ enhance.sent.format = "image/jpeg"
    /\ enhance.sent.contentType = "image/jpeg"
    /\ enhance.sent.contentDisposition = "attachment"
    /\ enhance.sent.contentLength # <<>>
    /\ \A i \in 1..Len(enhance.sent.contentLength) : IsDigit(enhance.sent.contentLength[i])
    /\ C11_DecimalValue(enhance.sent.contentLength) = enhance.sent.length

\* A 200 response whose body is over a hundred bytes long went out.
C11_Witness ==
  /\ enhance.pc = "done"
  /\ enhance.status = 200
  /\ enhance.buf = "transformed"
  /\ enhance.sent.length > 100

\* The links whose text is the url of the request.
C12_LinksOfRequest == {c \in LinkInputs : Render(c) = cover[1].query.url}

\* The host as the URL parser reports it (lower case for web schemes) holds
\* the provider's ".spotify." .
C12_OnProviderHost(c) ==
  LET h == IF toLowerCase(c.scheme) \in {S_http, S_https} THEN toLowerCase(c.host)
           ELSE c.host
  IN  \E i \in 1..(Len(h) - 8) : SubSeq(h, i, i + 8) = <<".","s","p","o","t","i","f","y",".">>

\* C12: a compact URI with the provider scheme (in any letter case), a type of
\* letters and underscores and an alphanumeric id resolves to the type in lower
\* case and the id as written; a compact URI with another scheme, and a URL
\* whose host is not the provider's, resolve to nothing.
C12_CompactUriAndUnrecognized ==
  cover[1].pc # "idle" =>
    \A c \in C12_LinksOfRequest :
      /\ ( /\ c.form = "uri"
           /\ toLowerCase(c.scheme) = <<"s","p","o","t","i","f","y">>
           /\ c.type # <<>> /\ \A k \in DOMAIN c.type : IsLetter(c.type[k]) \/ c.type[k] = "_"
           /\ c.id # <<>> /\ \A k \in DOMAIN c.id : IsAlnum(c.id[k]) )
         => cover[1].parsed = [ok |-> TRUE, type |-> toLowerCase(c.type), id |-> c.id]
      /\ (c.form = "uri" /\ toLowerCase(c.scheme) # <<"s","p","o","t","i","f","y">>)
         => ~cover[1].parsed.ok
      /\ (c.form = "url" /\ ~C12_OnProviderHost(c)) => ~cover[1].parsed.ok

\* " Spotify:Album:Zz9 " has been resolved to album, Zz9.
C12_Witness ==
  /\ cover[1].pc # "idle"
  /\ cover[1].query.url = <<" ">> \o S_Spotify \o <<":","A","l","b","u","m",":","Z","z","9"," ">>
  /\ cover[1].parsed.ok
  /\ cover[1].parsed.type = T_album

\* The segments of a path that are not empty.
C13_NonEmpty(segs) == SelectSeq(segs, LAMBDA x : Len(x) > 0)

\* C13: a URL on a provider host whose path has at least two non-empty
\* segments resolves to the first of them in lower case as the type and the
\* second, as written and with nothing of the query, as the id, whatever
\* follows them and whether or not the type is a known one; with fewer than two
\* such segments it resolves to nothing.
C13_HierarchicalUrl ==
  cover[1].pc # "idle" =>
    \A c \in C12_LinksOfRequest :
      (c.form = "url" /\ C12_OnProviderHost(c)) =>
        LET ne == C13_NonEmpty(c.segs)
        IN  IF Len(ne) >= 2
              THEN cover[1].parsed = [ok |-> TRUE, type |-> toLowerCase(ne[1]), id |-> ne[2]]
            ELSE ~cover[1].parsed.ok

\* HTTPS://Open.Spotify.COM//track//a1?si=x has been resolved to track, a1.
C13_Witness ==
  /\ cover[1].pc # "idle"
  /\ cover[1].query.url =
       RenderUrl([form |-> "url", scheme |-> S_HTTPS, host |-> H_OPEN,
                  segs |-> << <<>>, T_track, <<>>, <<"a","1">> >>,
                  suffix |-> <<"?","s","i","=","x">>])
  /\ cover[1].parsed = Link(T_track, <<"a","1">>)

\* The six resource types: the type of a link, the type of a result, the
\* lookup endpoint, and whether the images are the parent album's.
C14_Rows ==
  {[link |-> <<"t","r","a","c","k">>, type |-> "track", endpoint |-> "tracks",
    album |-> TRUE],
   [link |-> <<"a","l","b","u","m">>, type |-> "album", endpoint |-> "albums",
    album |-> FALSE],
   [link |-> <<"a","r","t","i","s","t">>, type |-> "artist", endpoint |-> "artists",
    album |-> FALSE],
   [link |-> <<"p","l","a","y","l","i","s","t">>, type |-> "playlist",
    endpoint |-> "playlists", album |-> FALSE],
   [link |-> <<"e","p","i","s","o","d","e">>, type |-> "episode",
    endpoint |-> "episodes", album |-> FALSE],
   [link |-> <<"s","h","o","w">>, type |-> "show", endpoint |-> "shows",
    album |-> FALSE]}

\* names joined with ", ": the names at the odd places, ", " between them.
C14_IsJoined(pieces, names) ==
  /\ Len(pieces) = (IF names = <<>> THEN 0 ELSE 2 * Len(names) - 1)
  /\ \A k \in DOMAIN pieces :
       pieces[k] = IF k % 2 = 1 THEN names[(k + 1) \div 2] ELSE ", "

\* The byline rule of a type applied to document d.
C14_BylineOk(type, byline, d) ==
  CASE type \in {"track", "album"} ->
         d.artists # None => (byline # None /\ C14_IsJoined(byline[1], d.artists[1]))
    [] type = "artist" -> byline = << <<"Artist">> >>
    [] type = "playlist" ->
         byline = IF d.ownerName \notin {None, <<"">>}
                    THEN << <<"By ", d.ownerName[1]>> >> ELSE << <<"Playlist">> >>
    [] type = "episode" ->
         byline = IF d.showName \notin {None, <<"">>}
                    THEN << <<"From ", d.showName[1]>> >> ELSE << <<"Episode">> >>
    [] type = "show" -> byline = << <<"Podcast">> >>

\* The entries of an optional image list.
C14_Entries(imgs) == IF imgs = None THEN {} ELSE {imgs[1][k] : k \in DOMAIN imgs[1]}

\* C14: for each of the six types a successful fetch has made exactly one
\* lookup call, to the endpoint of that type; the result has the requested
\* type, images taken from the parent album's image set for a track and from
\* the resource's own image set otherwise, and the byline of the type's rule.
C14_PerTypeLookup ==
  \A r \in CoverReqs :
    (cover[r].pc = "done" /\ cover[r].status = 200) =>
      \E row \in C14_Rows :
        LET d == cover[r].d[1]
            out == cover[r].body[1]
            from == IF row.album
                      THEN (IF d.album = None THEN {} ELSE C14_Entries(d.album[1].images))
                    ELSE C14_Entries(d.images)
        IN  /\ cover[r].parsed.type = row.link
            /\ cover[r].lookups = 1
            /\ cover[r].endpoint = row.endpoint
            /\ out.type = row.type
            /\ out.id = cover[r].parsed.id
            /\ \A k \in DOMAIN out.images : out.images[k] \in from
            /\ C14_BylineOk(row.type, out.byline, d)

\* A track whose document has album images and own images of the cover size
\* and two artists has been returned with the album's image.
C14_Witness ==
  \E r \in CoverReqs :
    /\ cover[r].pc = "done" /\ cover[r].status = 200
    /\ cover[r].body[1].type = "track"
    /\ cover[r].d[1].images # None
    /\ \E k \in DOMAIN cover[r].d[1].images[1] :
         /\ cover[r].d[1].images[1][k].width = <<640>>
         /\ cover[r].d[1].images[1][k].height = <<640>>
    /\ Len(cover[r].body[1].images) = 1
    /\ cover[r].body[1].byline = << <<"Ann", ", ", "Bob">> >>

\* The requests whose token exchange is in flight.
C15_InFlight == {r \in CoverReqs : cover[r].pc = "token"}

\* C15: at no time are two token exchanges in flight: concurrent requests
\* that observe an expired token share one refresh.
C15_AtMostOneExchangeInFlight == Cardinality(C15_InFlight) <= 1

\* C15 as amended: token exchanges of concurrent requests are in flight side
\* by side. A request sends its own exchange exactly when its getAccessToken
\* call finds no valid cached token and the credentials are configured,
\* whatever other exchanges are in flight at that moment, and it has one
\* exchange in flight at most.
C15_OwnExchangePerObserver ==
  [][\A r \in CoverReqs :
       LET valid == tokenCache.accessToken # NoToken /\ tokenCache.expiresAt - 30 > now
           configured == env.SPOTIFY_CLIENT_ID /\ env.SPOTIFY_CLIENT_SECRET
       IN  /\ (CallsGetAccessToken(r) /\ ~valid /\ configured)
                => (cover'[r].pc = "token" /\ cover'[r].exchanges = 1)
           /\ (cover[r].pc # "token" /\ cover'[r].pc = "token")
                => (CallsGetAccessToken(r) /\ ~valid /\ configured)
           /\ cover'[r].pc = "token" => cover'[r].exchanges = 1]_vars

\* Two requests with their own exchanges in flight at once, the cache still
\* empty.
C15_Witness ==
  /\ Cardinality(C15_InFlight) >= 2
  /\ \A r \in C15_InFlight : cover[r].exchanges = 1
  /\ tokenCache.accessToken = NoToken

\* C16: the stages of POST /api/enhance run in order and a failed stage ends
\* the pipeline: nothing is sent before imageUrl and the API key have been
\* validated, the transform service is called only once the source image has
\* arrived with success, and the re-encode starts only once the transform
\* service has answered with success; each stage runs once at most.
C16_StagesInOrder ==
  /\ enhance.sourceFetches <= 1 /\ enhance.transformCalls <= 1 /\ enhance.encodes <= 1
  /\ enhance.sourceFetches + enhance.transformCalls > 0
       => (enhance.imageUrl /\ env.CUTOUT_API_KEY)
  /\ enhance.transformCalls > 0
       => (enhance.sourceFetches = 1 /\ enhance.buf \in {"source", "transformed"})
  /\ enhance.encodes > 0
       => (enhance.transformCalls = 1 /\ enhance.buf = "transformed")
  /\ enhance.error \in {"missing_imageUrl", "missing_api_key"}
       => enhance.sourceFetches + enhance.transformCalls + enhance.encodes = 0
  /\ enhance.error \in {"source_status", "source_network"}
       => (enhance.buf = "none" /\ enhance.transformCalls + enhance.encodes = 0)
  /\ enhance.error \in {"transform_status", "transform_network"}
       => (enhance.buf = "source" /\ enhance.encodes = 0)
  /\ enhance.pc = "source" => enhance.transformCalls = 0
  /\ enhance.pc = "transform" => enhance.encodes = 0

\* A request that went through all three stages, and the server has the key.
C16_Witness ==
  /\ enhance.pc = "done" /\ enhance.status = 200
  /\ enhance.sourceFetches = 1 /\ enhance.transformCalls = 1 /\ enhance.encodes = 1
  /\ env.CUTOUT_API_KEY

\* C17: every request to /api/cover and /api/enhance gets one response on
\* every path through its handler, never a second one; when a stage has failed
\* (token exchange, lookup, source fetch, transform, re-encode) so that there
\* is no result to send, that response has a non-2xx status and an error field;
\* a 200 response is sent only with the result of the last stage.
C17_AnsweredOnceFailuresReported ==
  /\ cover[1].responses = (IF cover[1].pc = "done" THEN 1 ELSE 0)
  /\ enhance.responses = (IF enhance.pc = "done" THEN 1 ELSE 0)
  /\ (cover[1].pc = "done" /\ cover[1].d = None)
       => (cover[1].status >= 400 /\ cover[1].error # "none" /\ cover[1].body = None)
  /\ (cover[1].pc = "done" /\ cover[1].d # None)
       => (cover[1].status = 200 /\ cover[1].error = "none" /\ cover[1].body # None)
  /\ (cover[1].pc = "done" /\ cover[1].exchanges = 1 /\ cover[1].lookups = 0)
       => cover[1].status >= 400
  /\ (enhance.pc = "done" /\ enhance.sent.bytes = "none")
       => (enhance.status >= 400 /\ enhance.error # "none")
  /\ (enhance.pc = "done" /\ enhance.sent.bytes # "none")
       => (enhance.status = 200 /\ enhance.error = "none" /\ enhance.encodes = 1)
  /\ (enhance.pc = "done" /\ enhance.encodes = 0) => enhance.status >= 400

\* Both requests have ended on an upstream failure: the lookup of the one, the
\* transform call of the other.
C17_Witness ==
  /\ cover[1].pc = "done" /\ cover[1].lookups = 1 /\ cover[1].d = None
  /\ cover[1].responses = 1
  /\ enhance.pc = "done" /\ enhance.transformCalls = 1 /\ enhance.encodes = 0
  /\ enhance.responses = 1

\* A step in which the getAccessToken call of request r fails.
C18_CallFails(r) ==
  \/ /\ cover[r].pc = "idle"
     /\ cover'[r].pc = "done" /\ cover'[r].error = "missing_credentials"
  \/ /\ cover[r].pc = "token"
     /\ cover'[r].pc = "done"
     /\ cover'[r].error \in {"token_request_failed", "fetch_failed"}

\* C18: a getAccessToken call that fails, by absent credentials or by the
\* token endpoint, does not change the token cache; the cache changes only
\* when a token exchange succeeds, and then value and expiry are both those
\* of that one response.
C18_CacheChangedOnlyBySuccess ==
  [][/\ \A r \in CoverReqs : C18_CallFails(r) => tokenCache' = tokenCache
     /\ tokenCache' # tokenCache =>
          \E r \in CoverReqs :
            /\ cover[r].pc = "token" /\ cover[r].exchanges = 1
            /\ cover'[r].pc \in {"lookup", "done"}
            /\ cover'[r].pc = "lookup" => cover'[r].token = tokenCache'.accessToken
            /\ cover'[r].pc = "done" => cover'[r].error = "unsupported_type"
            /\ tokenCache'.accessToken \in {"tokA", "tokB"}
            /\ tokenCache'.expiresAt - now \in {20, 3600}]_vars

\* A token exchange has failed while the cache held the token of another
\* request's exchange, and the token is still there.
C18_Witness ==
  \E r1, r2 \in CoverReqs :
    /\ cover[r1].pc = "done"
    /\ cover[r1].error \in {"token_request_failed", "fetch_failed"}
    /\ cover[r2].exchanges = 1 /\ cover[r2].pc = "lookup"
    /\ tokenCache.accessToken # NoToken

\* C19: in the page, the fetch button is disabled whenever a cover fetch is in
\* flight, and enabled with its label "Get Cover" whenever none is, under any
\* sequence of clicks, Enter keys and pastes.
C19_ButtonFollowsFetches ==
  /\ client.fetches > 0 => client.disabled
  /\ client.fetches = 0 => (~client.disabled /\ client.label = "Get Cover")


====
